---- MODULE Spec2Model ----
(***************************************************************************)
(* Model of the ollekia client engine: the Transfer Engine                 *)
(* (AsyncFile.download, src/file.py) and the Pagination Engine             *)
(* (AsyncSearch, src/search.py).                                           *)
(***************************************************************************)
EXTENDS Integers, Sequences, FiniteSets, TLC

\* ------------------------------------------------------------------ bounds
\* Largest remote / initial local file size, in bytes.
MaxSize == 2
\* Largest initial retry budget (DownloadOptions.retries).
MaxRetries == 2

\* ------------------------------------------------------- program constants
\* response.content.iter_chunked(8192): a chunk holds at most this many bytes.
ChunkSize == 8192

Bytes == {0, 1}

Min(a, b) == IF a < b THEN a ELSE b

\* All byte strings of length at most n.
SeqsUpTo(n) == UNION {[1..k -> Bytes] : k \in 0..n}

\* The bytes the server holds for a file of size n.
RemoteContent(n) == [i \in 1..n |-> 1]

\* ------------------------------------------------------------ python values
PyStr(v) == [kind |-> "str", val |-> v]
\* A coroutine object: what calling an `async def` WITHOUT await evaluates to.
PyCoroutine(f) == [kind |-> "coroutine", val |-> f]
\* Python ==: objects of different types are never equal.
PyEq(a, b) == a.kind = b.kind /\ a.val = b.val
\* Python truthiness of the values used here: objects without __bool__/__len__
\* (a coroutine) are truthy; a bool is itself.
PyTruthy(a) == IF a.kind = "bool" THEN a.val ELSE TRUE
PyBool(b) == [kind |-> "bool", val |-> b]

\* hashlib.md5(...).hexdigest() of a byte string, idealised as collision free:
\* the digest is a string determined by the content.
hexdigest(content) == PyStr(<<"md5", content>>)

\* utils.get_md5(fp) awaited: read the whole file in chunks and digest it.
get_md5(content) == hexdigest(content)

\* ------------------------------------------------------------------- state
VARIABLES
    opts,       \* DownloadOptions (retries is decremented in place)
    remote,     \* the remote file's bytes; self.size = Len(remote)
    local,      \* destination file: [exists, data]
    ledger,     \* _checksum_archive.txt: [exists, lines]
    d_pc,       \* position of AsyncFile.download
    headers,    \* the local variable `headers` of download
    requests,   \* history: the headers of every request issued
    attempts,   \* history: how every finished attempt ended
    sleeps,     \* history: number of inter-retry sleeps
    hashed,     \* history: whether the local file was opened for hashing
    outcome,    \* what download returned / raised
    body,       \* bytes of the current response not yet read
    write_mode, \* mode the destination was opened with in this attempt
    sink,       \* bytes written to stdout / the provided file object
    local0,     \* history: the destination file when download was called
    retries0,   \* history: the retry budget when download was called
    parent,     \* the destination's parent directory path (parent_dir)
    fs_ops,     \* history: the makedirs and os.utime calls made
    call        \* history: [n: which call on this options object this is,
                \* retries: the budget the options held when it started]

dvars == <<opts, remote, local, ledger, d_pc, headers, requests, attempts,
           sleeps, hashed, outcome, body, write_mode, sink, local0, retries0,
           parent, fs_ops, call>>

FilePath == "dest"
NoHeaders == [h \in {} |-> 0]
RangeHeader(n) == [h \in {"Range"} |-> n]

NoFile == [exists |-> FALSE, data |-> <<>>]
File(d) == [exists |-> TRUE, data |-> d]

\* A line as f.readlines() returns it: the text and whether "\n" ends it.
Line(text, nl) == [text |-> text, nl |-> nl]

Sinks == {"file", "stdout", "fileobj"}

DownloadOptionsSet ==
    [ return_responses : BOOLEAN,
      checksum         : BOOLEAN,
      checksum_archive : BOOLEAN,
      ignore_existing  : BOOLEAN,
      ignore_errors    : BOOLEAN,
      sink             : Sinks,
      destdir          : {"none", "file"},
      dry_run          : BOOLEAN,
      retries          : 0..MaxRetries ]

Ledgers ==
    { [exists |-> FALSE, lines |-> <<>>],
      [exists |-> TRUE,  lines |-> <<>>],
      [exists |-> TRUE,  lines |-> <<Line(FilePath, TRUE)>>],
      [exists |-> TRUE,  lines |-> <<Line(FilePath, FALSE)>>] }

\* The destination has a directory part (a file name with "/" in it, or a
\* destdir).  What is at that path: "dir" a directory, "absent" nothing yet,
\* "blocked" a component of it is an existing non-directory.  An existing
\* destination file lies in a directory.
ParentsOf(f) == IF f.exists THEN {"dir"} ELSE {"absent", "blocked"}

\* destdir: "none" is no destdir given, "file" a destdir that is an existing
\* regular file.  dry_run is read nowhere in AsyncFile.download; it is
\* explored with the filesystem sink and the checksum options off.
DownloadInit ==
    /\ opts \in DownloadOptionsSet
    /\ opts.dry_run =>
         /\ opts.sink = "file" /\ opts.destdir = "none"
         /\ ~opts.checksum /\ ~opts.checksum_archive
    /\ remote \in {RemoteContent(n) : n \in 0..MaxSize}
    /\ local \in {NoFile} \cup {File(d) : d \in SeqsUpTo(MaxSize)}
    /\ ledger \in Ledgers
    /\ d_pc = "idle"
    /\ headers = NoHeaders
    /\ requests = <<>>
    /\ attempts = <<>>
    /\ sleeps = 0
    /\ hashed = FALSE
    /\ outcome = "none"
    /\ body = <<>>
    /\ write_mode = "none"
    /\ sink = <<>>
    /\ local0 = local
    /\ retries0 = opts.retries
    /\ parent \in ParentsOf(local)
    /\ fs_ops = <<>>
    /\ call = [n |-> 1, retries |-> opts.retries]

\* ================================================================ search
\* ------------------------------------------------------------------ bounds
\* Most requests one enumeration is followed for.
MaxRequests == 4
\* Most records (items, hits, docs) one response carries.
MaxBatch == 1

VARIABLES
    search_options, \* SearchOptions: [query, fts, dsl_fts, params, fields, sorts]
    s_pc,           \* position of the enumeration
    data,           \* the JSON payload `data` of _full_text_search
    queue,          \* records the generator is about to yield, in order
    cont,           \* where the generator goes once `queue` is drained
    yielded,        \* history: the records the consumer received
    responses,      \* history: what the transport did for each request
    num_found,      \* AsyncSearch._num_found (None is -1)
    server_total,   \* the total-count the server reports for the query
    s_outcome       \* how the enumeration ended, as the consumer sees it

svars == <<search_options, s_pc, data, queue, cont, yielded, responses,
           num_found, server_total, s_outcome>>

\* The query builder's state.
VARIABLES
    config,     \* the ruleset dict the builders hold (QueryBuilder.config)
    config0,    \* history: the ruleset the builders were constructed with
    results,    \* history: what each builder's latest build() returned
    first       \* history: what the first build() of all returned

qvars == <<config, config0, results, first>>

\* The position of the second user of the shared objects: a second
\* enumeration obtained from the same AsyncSearch, or a second AsyncSearch
\* constructed from the same SearchOptions.
VARIABLES o_pc

\* ----------------------------------------------------------------------
\* InternetArchiveClient (src/client.py): its initialization state and
\* the coroutines that call its operations concurrently on one event loop.
VARIABLES
    initialized, \* self._initialized
    init_lock,   \* self._init_lock: 0 when free, else the task holding it
    session,     \* self._session: "none", "open" or "closed"
    init_runs,   \* history: how often lines 61-76 ran to the end
    c_pc,        \* task -> where the task is in wrapper / _ensure_initialized
    c_op,        \* task -> the operation the task calls
    touched      \* history: the operation bodies that ran, with the client
                 \* state they found

cvars == <<initialized, init_lock, session, init_runs, c_pc, c_op, touched>>

vars == <<dvars, svars, qvars, o_pc, cvars>>

\* --------------------------------------------------------- download: entry
\* aiofiles.os.path.exists(p) is an `async def`; awaited it is the bool.
path_exists(f) == PyBool(f.exists)

\* Line 117 and 120 call it WITHOUT await: the condition sees the coroutine.
path_exists_not_awaited(f) == PyCoroutine("exists")

\* Line 129: `file_path in checksum_archive_data` compares the path with the
\* lines as read, newline included.
LedgerHit(lines) ==
    \E i \in 1..Len(lines) : lines[i].text = FilePath /\ ~lines[i].nl

\* Line 146: md5_sum = utils.get_md5(fp), not awaited.
md5_sum(content) == PyCoroutine(<<"get_md5", content>>)

\* self.md5: the md5 the server reports for the file.
self_md5 == get_md5(remote)

Finish(res) ==
    /\ d_pc' = "done"
    /\ outcome' = res

\* Lines 109-110: destdir is given and isfile(destdir), awaited.
DestdirIsFileUnchecked(o) == FALSE
DestdirIsFile(o) == o.destdir = "file"

\* Lines 106-159: everything before the retry loop.
DownloadEnter ==
    /\ d_pc = "idle"
    /\ UNCHANGED <<svars, qvars, o_pc, cvars, call>>
    /\ UNCHANGED <<opts, remote, parent, fs_ops, local, headers, requests, attempts, sleeps,
                   body, write_mode, sink, local0, retries0, ledger>>
    /\ IF DestdirIsFile(opts)
       THEN \* line 111: raise OSError, outside the try of the retry loop
            Finish("OSError") /\ hashed' = hashed
       ELSE
       IF ~opts.return_responses /\ PyTruthy(path_exists_not_awaited(local))
       THEN
         \* line 118-137: ledger lookup
         IF opts.checksum_archive /\ ~ledger.exists
         THEN \* `not <coroutine>` is False: the ledger is not created, and
              \* opening it for reading raises FileNotFoundError
              Finish("FileNotFoundError") /\ hashed' = hashed
         ELSE IF opts.checksum_archive /\ LedgerHit(ledger.lines)
         THEN Finish("None") /\ hashed' = hashed
         ELSE IF opts.ignore_existing
         THEN Finish("None") /\ hashed' = hashed
         ELSE IF opts.checksum \/ opts.checksum_archive
         THEN IF ~local.exists
              THEN \* open(file_path, "rb") raises FileNotFoundError
                   Finish("FileNotFoundError") /\ hashed' = hashed
              ELSE /\ hashed' = TRUE
                   /\ IF PyEq(md5_sum(local.data), self_md5)
                      THEN Finish("None")
                      ELSE d_pc' = "loop" /\ outcome' = outcome
         ELSE d_pc' = "loop" /\ outcome' = outcome /\ hashed' = hashed
       ELSE d_pc' = "loop" /\ outcome' = outcome /\ hashed' = hashed

\* ---------------------------------------------------- download: retry loop
\* Line 232: the retry test of the exception handler.
RetryAllowedOffByOne(n) == n >= 0
RetryAllowed(n) == n > 0

\* Line 233: download_options.retries -= 1.
DecrementTwice(n) == n - 2
Decrement(n) == n - 1

\* Lines 231-244: `except Exception` of the retry loop.
OnException(kind) ==
    /\ attempts' = Append(attempts, kind)
    /\ IF RetryAllowed(opts.retries)
       THEN /\ opts' = [opts EXCEPT !.retries = Decrement(@)]
            /\ d_pc' = "sleeping"
            /\ outcome' = outcome
       ELSE /\ opts' = opts
            /\ Finish(IF opts.ignore_errors THEN "False" ELSE "raised")

\* Lines 167-176: stat the destination and decide on a Range header.
\* `headers` is assigned only when the test holds; otherwise it keeps the
\* value it had (it is created once, at line 106).
NextHeaders(f) ==
    IF ~opts.return_responses /\ PyTruthy(path_exists(f))
       /\ Len(f.data) # Len(remote)
       /\ ~(opts.checksum \/ opts.checksum_archive)
    THEN RangeHeader(Len(f.data))
    ELSE headers

\* Line 164: makedirs(parent_dir, exist_ok=True) is called unless in
\* capture mode.
MakedirsCalledAlways == TRUE
MakedirsCalled == ~opts.return_responses

\* Lines 163-184: start of an attempt, up to sending the request.  makedirs
\* is inside the try: when it raises (FileExistsError / NotADirectoryError)
\* the handler of the retry loop gets the exception.
AttemptBegin ==
    /\ d_pc = "loop"
    /\ UNCHANGED <<svars, qvars, o_pc, cvars, call>>
    /\ fs_ops' = IF MakedirsCalled THEN Append(fs_ops, "makedirs") ELSE fs_ops
    /\ IF MakedirsCalled /\ parent = "blocked"
       THEN /\ OnException("makedirs")
            /\ UNCHANGED <<headers, requests, parent>>
       ELSE /\ parent' = IF MakedirsCalled THEN "dir" ELSE parent
            /\ headers' = NextHeaders(local)
            /\ requests' = Append(requests, headers')
            /\ d_pc' = "awaiting"
            /\ UNCHANGED <<opts, attempts, outcome>>
    /\ UNCHANGED <<remote, local, ledger, sleeps, hashed,
                   body, write_mode, sink, local0, retries0>>

\* client.get raises (network error, or non-2xx status via raise_for_status).
RequestFails ==
    /\ d_pc = "awaiting"
    /\ UNCHANGED <<svars, qvars, o_pc, cvars, call>>
    /\ OnException("request")
    /\ UNCHANGED <<remote, parent, fs_ops, local, ledger, headers, requests, sleeps, hashed,
                   body, write_mode, sink, local0, retries0>>

\* The body a server that honours Range sends for the request.
ResponseBody(h) ==
    IF "Range" \in DOMAIN h
    THEN SubSeq(remote, h["Range"] + 1, Len(remote))
    ELSE remote

\* A range starting at or past the end of the file is unsatisfiable (416).
Satisfiable(h) == "Range" \in DOMAIN h => h["Range"] < Len(remote)

\* Line 203-204: append if resuming, else truncate-write.
WriteMode(h) == IF "Range" \in DOMAIN h THEN "ab" ELSE "wb"

\* Lines 184-207: a 2xx response arrives; capture mode returns it, else the
\* sink is chosen and (filesystem sink) the destination is opened.
ResponseArrives ==
    /\ d_pc = "awaiting"
    /\ UNCHANGED <<svars, qvars, o_pc, cvars, call>>
    /\ Satisfiable(headers)
    /\ UNCHANGED <<opts, remote, parent, fs_ops, ledger, headers, requests, sleeps,
                   hashed, sink, local0, retries0>>
    /\ IF opts.return_responses
       THEN /\ Finish("response")
            /\ attempts' = Append(attempts, "ok")
            /\ UNCHANGED <<local, body, write_mode>>
       ELSE /\ body' = ResponseBody(headers)
            /\ attempts' = attempts
            /\ d_pc' = "streaming"
            /\ outcome' = outcome
            /\ IF opts.sink = "file"
               THEN /\ write_mode' = WriteMode(headers)
                    /\ local' = IF write_mode' = "ab" /\ local.exists
                                THEN local ELSE File(<<>>)
               ELSE UNCHANGED <<local, write_mode>>

\* Lines 208-209 / 223-227: one chunk of at most ChunkSize bytes is read and
\* written to the sink.
WriteChunk ==
    /\ d_pc = "streaming"
    /\ UNCHANGED <<svars, qvars, o_pc, cvars, call>>
    /\ body # <<>>
    /\ \E n \in 1..Min(ChunkSize, Len(body)) :
         /\ body' = SubSeq(body, n + 1, Len(body))
         /\ IF opts.sink = "file"
            THEN local' = File(local.data \o SubSeq(body, 1, n)) /\ sink' = sink
            ELSE sink' = sink \o SubSeq(body, 1, n) /\ local' = local
    /\ UNCHANGED <<opts, remote, parent, fs_ops, ledger, d_pc, headers, requests, attempts,
                   sleeps, hashed, outcome, write_mode, local0, retries0>>

\* The stream breaks (connection lost, payload error), a write fails, or the
\* post-download os.utime fails: any point of lines 207-215, the end of the
\* body included.
StreamFails ==
    /\ d_pc = "streaming"
    /\ UNCHANGED <<svars, qvars, o_pc, cvars, call>>
    /\ OnException("stream")
    /\ body' = <<>>
    /\ UNCHANGED <<remote, parent, fs_ops, local, ledger, headers, requests, sleeps, hashed,
                   write_mode, sink, local0, retries0>>

\* Lines 211-220 and 229/246: the body is exhausted; return True.
StreamEnds ==
    /\ d_pc = "streaming"
    /\ UNCHANGED <<svars, qvars, o_pc, cvars, call>>
    /\ body = <<>>
    /\ attempts' = Append(attempts, "ok")
    /\ Finish("True")
    /\ \* lines 212-215: os.utime after a download to the filesystem
       fs_ops' = IF opts.sink = "file" THEN Append(fs_ops, "utime") ELSE fs_ops
    /\ UNCHANGED <<opts, remote, parent, local, ledger, headers, requests, sleeps,
                   hashed, body, write_mode, sink, local0, retries0>>

\* Line 231: `except Exception` catches the subclasses of Exception;
\* asyncio.CancelledError derives from BaseException.
CatchesBaseException(exc) == TRUE
Catches(exc) == exc # "CancelledError"

\* The task is cancelled while download is suspended in an await: the
\* request (178-184), a chunk read or write (208-209) or the sleep (237).
\* CancelledError is raised at that await.
Cancel ==
    /\ d_pc \in {"awaiting", "streaming", "sleeping"}
    /\ UNCHANGED <<svars, qvars, o_pc, cvars, call>>
    /\ IF Catches("CancelledError")
       THEN OnException("CancelledError")
       ELSE /\ attempts' = Append(attempts, "CancelledError")
            /\ opts' = opts
            /\ Finish("CancelledError")
    /\ body' = <<>>
    /\ UNCHANGED <<remote, parent, fs_ops, local, ledger, headers, requests, sleeps, hashed,
                   write_mode, sink, local0, retries0>>

\* Line 237-238: asyncio.sleep(retries_sleep), then `continue`.
RetrySleep ==
    /\ d_pc = "sleeping"
    /\ UNCHANGED <<svars, qvars, o_pc, cvars, call>>
    /\ sleeps' = sleeps + 1
    /\ d_pc' = "loop"
    /\ UNCHANGED <<opts, remote, parent, fs_ops, local, ledger, headers, requests, attempts,
                   hashed, outcome, body, write_mode, sink, local0, retries0>>


DownloadNext ==
    \/ DownloadEnter
    \/ AttemptBegin
    \/ RequestFails
    \/ ResponseArrives
    \/ WriteChunk
    \/ StreamFails
    \/ StreamEnds
    \/ RetrySleep
    \/ Cancel

\* Most calls of download made with one options object.
MaxCalls == 2

\* AsyncItem.download, src/item.py 264-291: every file's download gets the
\* caller's DownloadOptions object itself, not a copy.
OptionsOfNextCallFresh(o) == [o EXCEPT !.retries = retries0]
OptionsOfNextCall(o) == o

\* download has returned or raised and is called again with the same
\* options object, for the same destination or for one that has no file
\* yet.  The locals of download start anew; `sleeps` and `retries0` go on
\* counting over the whole sequence of calls.
DownloadAgain ==
    /\ d_pc = "done"
    /\ call.n < MaxCalls
    /\ opts' = OptionsOfNextCall(opts)
    /\ call' = [n |-> call.n + 1, retries |-> opts'.retries]
    /\ \E fresh \in BOOLEAN :
         /\ local' = IF fresh THEN NoFile ELSE local
         /\ parent' = IF fresh /\ parent = "blocked" THEN "absent" ELSE parent
    /\ local0' = local'
    /\ d_pc' = "idle"
    /\ headers' = NoHeaders
    /\ requests' = <<>>
    /\ attempts' = <<>>
    /\ hashed' = FALSE
    /\ outcome' = "none"
    /\ body' = <<>>
    /\ write_mode' = "none"
    /\ fs_ops' = <<>>
    /\ UNCHANGED <<remote, ledger, sleeps, sink, retries0>>
    /\ UNCHANGED <<svars, qvars, o_pc, cvars>>

\* The calls of a sequence write to the filesystem, with the skip and
\* verification options off.
RepeatedDownloadInit ==
    /\ DownloadInit
    /\ opts.sink = "file" /\ opts.destdir = "none"
    /\ ~opts.return_responses /\ ~opts.dry_run /\ ~opts.ignore_existing
    /\ ~opts.checksum /\ ~opts.checksum_archive
    /\ ~ledger.exists
    /\ Len(local.data) <= 1

RepeatedDownloadNext == DownloadNext \/ DownloadAgain


None == -1
EmptyDict == [k \in {} |-> ""]
Put(d, k, v) == [x \in DOMAIN d \cup {k} |-> IF x = k THEN v ELSE d[x]]
Del(d, k) == [x \in DOMAIN d \ {k} |-> d[x]]
\* dict.update: the keys of u win.
Update(d, u) == [x \in DOMAIN d \cup DOMAIN u |-> IF x \in DOMAIN u THEN u[x] ELSE d[x]]

Totals == {0, 1, 3}

CallerKeys == {"page", "rows", "user_aggs", "size", "index"}
CallerParams == {[k \in ks |-> "1"] : ks \in SUBSET CallerKeys}

SearchInit ==
    /\ search_options \in
         [ query   : {<<"q0">>},
           fts     : BOOLEAN,
           dsl_fts : BOOLEAN,
           params  : CallerParams,
           fields  : {<<>>, <<"title">>},
           sorts   : {<<>>} ]
    /\ s_pc = "unbuilt"
    /\ data = EmptyDict
    /\ queue = <<>>
    /\ cont = "none"
    /\ yielded = <<>>
    /\ responses = <<>>
    /\ num_found = None
    /\ server_total \in Totals
    \* _full_text_search reads neither the field list nor a total-count
    /\ (search_options.fts \/ search_options.dsl_fts) =>
         server_total = 0 /\ search_options.fields = <<>>
    /\ s_outcome = "none"
    /\ o_pc = "unstarted"

\* The literal-match marker of line 31.
LiteralQuery(q) == <<"!L ">> \o q

\* Line 30: the query gets the marker when full-text search is on and DSL
\* mode is off.
LiteralMatchAlways(fts, dsl_fts) == fts
LiteralMatch(fts, dsl_fts) == fts /\ ~dsl_fts

\* Lines 36-40: the default count is put into default_params when the
\* caller's parameters have neither "page" nor "rows".
InjectsCountNever(params) == FALSE
InjectsCount(params) == "page" \notin DOMAIN params /\ "rows" \notin DOMAIN params

\* Lines 17-54: what AsyncSearch.__init__ makes of the options object o.
Normalised(o) ==
    LET fts == o.dsl_fts \/ o.fts
        query == IF LiteralMatch(fts, o.dsl_fts) THEN LiteralQuery(o.query) ELSE o.query
        d0 == [k \in {"q"} |-> query]
        p1 == IF "page" \notin DOMAIN o.params /\ "rows" \in DOMAIN o.params
              THEN Put(o.params, "page", "1") ELSE o.params
        d1 == IF InjectsCount(o.params) THEN Put(d0, "count", "10000")
              ELSE IF "page" \notin DOMAIN o.params THEN d0
              ELSE Put(d0, "output", "json")
        p2 == IF "index" \in DOMAIN p1
              THEN Del(Put(p1, "scope", p1["index"]), "index") ELSE p1
    IN [o EXCEPT !.fts = fts, !.query = query, !.params = Update(d1, p2)]

\* Lines 17-54: AsyncSearch.__init__ normalises the options object in place.
Construct ==
    /\ s_pc = "unbuilt"
    /\ search_options' = Normalised(search_options)
    /\ s_pc' = "ready"
    /\ UNCHANGED <<data, queue, cont, yielded, responses, num_found, s_outcome, server_total>>
    /\ UNCHANGED <<dvars, qvars, o_pc, cvars>>

\* A second AsyncSearch is constructed from the options object the first
\* one holds (line 21 keeps a reference, not a copy): lines 22-50 run on it
\* again.  The second engine has its own _num_found.
Reconstruct ==
    /\ s_pc = "ready"
    /\ o_pc = "unstarted"
    /\ search_options' = Normalised(search_options)
    /\ o_pc' = "constructed"
    /\ UNCHANGED <<s_pc, data, queue, cont, yielded, responses, num_found,
                   s_outcome, server_total>>
    /\ UNCHANGED <<dvars, qvars, cvars>>

\* Lines 226-238: protocol selection, first match wins.
ProtocolAggsFirst(o) ==
    IF "user_aggs" \in DOMAIN o.params THEN "aggs"
    ELSE IF o.fts THEN "fts"
    ELSE IF "page" \in DOMAIN o.params THEN "advanced"
    ELSE "scrape"
Protocol(o) ==
    IF o.fts THEN "fts"
    ELSE IF "user_aggs" \in DOMAIN o.params THEN "aggs"
    ELSE IF "page" \in DOMAIN o.params THEN "advanced"
    ELSE "scrape"

FlKey(i) == CASE i = 1 -> "fl[0]" [] i = 2 -> "fl[1]" [] OTHER -> "fl[2]"

\* Lines 57-66, 101-105, 162-174, 242-244: the code of the selected protocol
\* that runs before its first request.
Prologue(o, m) ==
    CASE m = "advanced" ->
           LET f == IF \E i \in 1..Len(o.fields) : o.fields[i] = "identifier"
                    THEN o.fields ELSE Append(o.fields, "identifier")
               fl == [k \in {FlKey(i) : i \in 1..Len(f)} |->
                        f[CHOOSE i \in 1..Len(f) : FlKey(i) = k]]
           IN [o EXCEPT !.fields = f,
                        !.params = Put(Update(o.params, fl), "output", "json")]
      [] m = "scrape" ->
           IF o.fields # <<>>
           THEN [o EXCEPT !.params = Put(o.params, "fields", o.fields)]
           ELSE o
      [] m = "aggs" ->
           [o EXCEPT !.params = Put(Put(Del(o.params, "count"), "rows", "1"),
                                    "output", "json")]
      [] OTHER -> o

\* Lines 162-174: the payload of the first full-text request.
FtsData(o) ==
    LET d0 == [k \in {"q", "size", "from", "scroll"} |->
                 CASE k = "q" -> PyStr(o.query)
                   [] k = "size" -> PyStr("10000")
                   [] k = "from" -> PyStr("0")
                   [] OTHER -> PyStr("true")]
        d1 == IF "scope" \in DOMAIN o.params
              THEN Put(d0, "scope", PyStr(o.params["scope"])) ELSE d0
    IN IF "size" \in DOMAIN o.params
       THEN Put(Put(d1, "scroll", PyStr("False")), "size", PyStr(o.params["size"]))
       ELSE d1

SEnd(res) ==
    /\ s_pc' = "done"
    /\ s_outcome' = res

\* iter_as_results and the consumer's first pull: the generator starts, the
\* protocol is selected and its prologue runs.
Start ==
    /\ s_pc = "ready"
    /\ LET m == Protocol(search_options) IN
         IF m = "aggs" /\ "count" \notin DOMAIN search_options.params
         THEN \* line 242: del params["count"] raises KeyError, uncaught
              /\ SEnd("KeyError")
              /\ UNCHANGED <<search_options, data>>
         ELSE /\ search_options' = Prologue(search_options, m)
              /\ data' = IF m = "fts" THEN FtsData(search_options) ELSE data
              /\ s_pc' = m
              /\ s_outcome' = s_outcome
    /\ UNCHANGED <<queue, cont, yielded, responses, num_found, server_total>>
    /\ UNCHANGED <<dvars, qvars, o_pc, cvars>>

\* ------------------------------------------------------------- transport
\* What the transport did for one request.  ok: the call returned a 2xx
\* response whose JSON decoded; error: the JSON has a non-empty "error";
\* has: the records key (items / hits / docs) is present; n: how many
\* records it holds; total: the reported total-count.
TransportError == [ok |-> FALSE, error |-> FALSE, has |-> FALSE, n |-> 0, total |-> 0]
JsonResponses ==
    { [ok |-> TRUE, error |-> e, has |-> h, n |-> n, total |-> server_total] :
        e \in BOOLEAN, h \in BOOLEAN, n \in 0..MaxBatch }
Outcomes == {TransportError} \cup {r \in JsonResponses : ~r.has => r.n = 0}

\* The log entry of one request: what the transport did, and the protocol
\* method (_scrape, _full_text_search, _advanced_search, _user_aggs) whose
\* client call sent it.
Sent(r, via) ==
    [ok |-> r.ok, error |-> r.error, has |-> r.has, n |-> r.n,
     total |-> r.total, via |-> via]

Record(kind, k, i) == [kind |-> kind, req |-> k, idx |-> i]
\* The records of the k-th response, in the order the server lists them.
Items(k, n) == [i \in 1..n |-> Record("item", k, i)]

\* The generator runs to its next yield: with records pending it suspends at
\* the first of them, otherwise it goes on to `c`.
Pending(q, c) ==
    /\ queue' = q
    /\ IF q = <<>>
       THEN /\ cont' = "none"
            /\ IF c = "done" THEN SEnd("end") ELSE s_pc' = c /\ s_outcome' = s_outcome
       ELSE /\ cont' = c
            /\ s_pc' = "yielding"
            /\ s_outcome' = s_outcome

\* The consumer receives the record the generator is suspended at.
Yield ==
    /\ s_pc = "yielding"
    /\ yielded' = Append(yielded, Head(queue))
    /\ Pending(Tail(queue), cont)
    /\ UNCHANGED <<search_options, data, responses, num_found, server_total>>
    /\ UNCHANGED <<dvars, qvars, o_pc, cvars>>

\* -------------------------------------------------------------- requests
\* The protocol's loop is followed for at most MaxRequests requests.
CanRequest == Len(responses) < MaxRequests

\* Lines 141-159: every except clause of _scrape ends with `break`.
ScrapeOnErrorRetry == "scrape"
ScrapeOnError == "done"

\* Line 138-139 with an empty items list: the for loop yields nothing and
\* `while True` goes round again.
ScrapeAfterItems == "scrape"

\* Lines 133-136: after `yield json_response` the round goes on with the
\* total-count and the items; nothing is raised (line 134 is a comment).
ScrapeAfterErrorRecordStops == "done"
ScrapeAfterErrorRecord == "scrape_items"

\* Lines 117-159: one round of the loop of _scrape, from the request to the
\* first yield (or to the next round).
ScrapeRequest ==
    /\ s_pc = "scrape"
    /\ CanRequest
    /\ \E r \in Outcomes :
         /\ responses' = Append(responses, Sent(r, "scrape"))
         /\ LET k == Len(responses) + 1 IN
              IF ~r.ok
              THEN Pending(<<>>, ScrapeOnError) /\ num_found' = num_found
              ELSE IF r.error
              THEN \* line 133: the response itself is yielded; the rest of
                   \* the round runs when the consumer pulls again
                   Pending(<<Record("json", k, 0)>>, ScrapeAfterErrorRecord)
                   /\ num_found' = num_found
              ELSE /\ num_found' = r.total
                   /\ IF r.has
                      THEN Pending(Items(k, r.n), ScrapeAfterItems)
                      ELSE \* json_response["items"]: KeyError, caught, break
                           Pending(<<>>, ScrapeOnError)
    /\ UNCHANGED <<search_options, data, yielded, server_total>>
    /\ UNCHANGED <<dvars, qvars, o_pc, cvars>>

\* Lines 136-139 after the error response was yielded.
ScrapeItems ==
    /\ s_pc = "scrape_items"
    /\ LET k == Len(responses)
           r == responses[k]
       IN /\ num_found' = r.total
          /\ IF r.has
             THEN Pending(Items(k, r.n), ScrapeAfterItems)
             ELSE Pending(<<>>, ScrapeOnError)
    /\ UNCHANGED <<search_options, data, yielded, responses, server_total>>
    /\ UNCHANGED <<dvars, qvars, o_pc, cvars>>

\* Python `x is False`: identity with the bool singleton.
IsFalse(v) == v.kind = "bool" /\ v.val = FALSE

\* Line 198-199: `if not hits: return`.
FtsNoHitsContinue == "fts"
FtsNoHits == "done"

\* Lines 202-205: after the hits were yielded.
FtsAfterYield(d) == IF IsFalse(d["scroll"]) THEN "done" ELSE "fts"

\* Lines 208-224: no except clause of _full_text_search leaves the loop.
FtsOnError == "fts"

\* Lines 176-224: one round of the loop of _full_text_search.
FtsRequest ==
    /\ s_pc = "fts"
    /\ CanRequest
    /\ \E r \in Outcomes :
         /\ responses' = Append(responses, Sent(r, "fts"))
         /\ LET k == Len(responses) + 1 IN
              IF ~r.ok
              THEN Pending(<<>>, FtsOnError) /\ data' = data
              ELSE IF ~r.has \/ r.n = 0
              THEN Pending(<<>>, FtsNoHits) /\ data' = data
              ELSE \* `yield hits`: the whole list is one record
                   /\ Pending(<<Record("hits", k, r.n)>>, FtsAfterYield(data))
                   /\ data' = IF FtsAfterYield(data) = "fts"
                              THEN Put(data, "scroll_id", PyStr(<<"scroll", k>>))
                              ELSE data
    /\ UNCHANGED <<search_options, yielded, num_found, server_total>>
    /\ UNCHANGED <<dvars, qvars, o_pc, cvars>>

\* Lines 80-81 and the end of _advanced_search: after the documents of the
\* response the generator returns; there is no page-advance loop.
AdvancedAfterDocsPaging(found, k) == IF k < found THEN "advanced" ELSE "done"
AdvancedAfterDocs(found, k) == "done"

\* Lines 68-98: the single request of _advanced_search.
AdvancedRequest ==
    /\ s_pc = "advanced"
    /\ CanRequest
    /\ \E r \in Outcomes :
         /\ responses' = Append(responses, Sent(r, "advanced"))
         /\ LET k == Len(responses) + 1 IN
              IF ~r.ok
              THEN \* logged, not re-raised
                   Pending(<<>>, "done") /\ num_found' = num_found
              ELSE /\ num_found' = IF num_found = None \/ num_found = 0
                                   THEN r.total ELSE num_found
                   /\ Pending([i \in 1..r.n |-> Record("doc", k, i)],
                              AdvancedAfterDocs(r.total, Len(yielded) + r.n))
    /\ UNCHANGED <<search_options, data, yielded, server_total>>
    /\ UNCHANGED <<dvars, qvars, o_pc, cvars>>

\* InternetArchiveClient.get, src/client.py 161-186: `auth` arrives in
\* **kwargs and is passed to session.get next to auth=auth_obj, which is a
\* TypeError (duplicate keyword) raised before any request is sent.
ClientGetAccepts(kwargs) == "auth" \notin kwargs

\* Lines 245-262: the request of _user_aggs; nothing here is in a try block,
\* so whatever the call raises reaches the consumer.
AggsRequest ==
    /\ s_pc = "aggs"
    /\ CanRequest
    /\ IF ~ClientGetAccepts({"params", "auth", "timeout"})
       THEN SEnd("TypeError") /\ UNCHANGED <<responses, queue, cont>>
       ELSE \E r \in Outcomes :
              /\ responses' = Append(responses, Sent(r, "aggs"))
              /\ \* a transport error propagates; so does the TypeError of
                 \* `async for` over dict.items() at line 259
                 SEnd(IF r.ok THEN "TypeError" ELSE "ClientError")
              /\ UNCHANGED <<queue, cont>>
    /\ UNCHANGED <<search_options, data, yielded, num_found, server_total>>
    /\ UNCHANGED <<dvars, qvars, o_pc, cvars>>

\* ------------------------------------------------- a second enumeration
\* iter_as_results / iter_as_items (320-328) called again on the same
\* AsyncSearch: a new generator over the same self.search_options and
\* self._num_found.  Of the second enumeration the model follows what it
\* does to those two; its own requests and records are not recorded.
\* Its first pull: protocol selection and prologue.  _full_text_search keeps
\* its payload in a local and _user_aggs raises at its client call, so these
\* two touch nothing shared afterwards.
OtherStart ==
    /\ s_pc # "unbuilt"
    /\ o_pc = "unstarted"
    /\ LET m == Protocol(search_options) IN
         IF m = "aggs" /\ "count" \notin DOMAIN search_options.params
         THEN o_pc' = "done" /\ search_options' = search_options
         ELSE /\ search_options' = Prologue(search_options, m)
              /\ o_pc' = IF m \in {"advanced", "scrape"} THEN m ELSE "done"
    /\ UNCHANGED <<s_pc, data, queue, cont, yielded, responses, num_found,
                   server_total, s_outcome>>
    /\ UNCHANGED <<dvars, qvars, cvars>>

\* A response to a request of the second enumeration: lines 77-78
\* (_advanced_search) and 136 (_scrape) assign self._num_found; a scrape
\* response carrying an error field reaches line 136 once its consumer has
\* taken the yielded response.
OtherResponse ==
    /\ o_pc \in {"advanced", "scrape"}
    /\ \E r \in Outcomes :
         IF ~r.ok
         THEN o_pc' = "done" /\ num_found' = num_found
         ELSE IF o_pc = "advanced"
         THEN /\ num_found' = IF num_found = None \/ num_found = 0
                              THEN r.total ELSE num_found
              /\ o_pc' = "done"
         ELSE /\ num_found' = r.total
              /\ o_pc' = IF r.has THEN "scrape" ELSE "done"
    /\ UNCHANGED <<search_options, s_pc, data, queue, cont, yielded, responses,
                   server_total, s_outcome>>
    /\ UNCHANGED <<dvars, qvars, cvars>>

SearchNext ==
    \/ Construct
    \/ Start
    \/ Yield
    \/ ScrapeRequest
    \/ ScrapeItems
    \/ FtsRequest
    \/ AdvancedRequest
    \/ AggsRequest

\* ========================================================= query builder
\* ------------------------------------------------------------------ bounds
\* Most rules in the to_be list.
MaxRules == 2
\* Most groups in the groups list.
MaxGroups == 2

\* A query string is a sequence of string pieces; concatenation is \o.
\* f"{field_name}:\"{kw}\"" (lines 42, 44, 46).
Clause(field_name, kw) == <<field_name, ":\"", kw, "\"">>
\* Lines 21-23: f"date:[{from} TO {to}]".
DateClause(date_range) == <<"date:[", date_range.from, " TO ", date_range.to, "]">>
\* Line 65: f"NOT {field_name}:\"{kw}\"".
NotClause(field_name, kw) == <<"NOT ">> \o Clause(field_name, kw)

\* The values held by positive_rules_map: a logic dict or a date string.
PyDict(d) == [kind |-> "dict", val |-> d]
\* `not v` for those values: an empty dict and an empty string are falsy.
Falsy(v) == IF v.kind = "dict" THEN DOMAIN v.val = {} ELSE v.val = <<>>

\* dict.get(k, []) on a logic dict.
Get(logic, k) == IF k \in DOMAIN logic THEN logic[k] ELSE <<>>

\* A rule of to_be / not_to_be.  kind "field": the dict has the key "field"
\* (and "logic", possibly empty); kind "date": it has the key "date" and no
\* "field".
FieldRule(f, logic) == [kind |-> "field", field |-> f, logic |-> logic, ranges |-> <<>>]
DateRule(ranges) == [kind |-> "date", field |-> "", logic |-> EmptyDict, ranges |-> ranges]

\* Lines 12-23: field name -> rule logic; a later rule for a field replaces
\* an earlier one; a date rule with ranges becomes a string built from its
\* first range.
RECURSIVE PositiveRulesMap(_)
PositiveRulesMap(rules) ==
    IF rules = <<>> THEN EmptyDict
    ELSE LET m == PositiveRulesMap(SubSeq(rules, 1, Len(rules) - 1))
             rule == rules[Len(rules)]
         IN IF rule.kind = "field"
            THEN Put(m, rule.field, PyDict(rule.logic))
            ELSE IF rule.ranges # <<>>
            THEN Put(m, "date", PyStr(DateClause(rule.ranges[1])))
            ELSE m

\* The clauses of one keyword list, in list order.
Clauses(field_name, kws) == [i \in 1..Len(kws) |-> Clause(field_name, kws[i])]

\* Lines 41-46: the keywords of a logic dict in the order of the three
\* loops: "and", then "or", then "alone".
KeywordsOfAloneFirst(logic) ==
    Get(logic, "alone") \o Get(logic, "and") \o Get(logic, "or")
KeywordsOf(logic) ==
    Get(logic, "and") \o Get(logic, "or") \o Get(logic, "alone")

\* Lines 32-46: what one field name of a group adds to all_group_parts.
FieldParts(m, field_name) ==
    IF field_name \notin DOMAIN m THEN <<>>
    ELSE LET rule_logic == m[field_name] IN
         IF Falsy(rule_logic) THEN <<>>
         ELSE IF field_name = "date" /\ rule_logic.kind = "str"
         THEN <<rule_logic.val>>
         ELSE Clauses(field_name, KeywordsOf(rule_logic.val))

\* Lines 29-46: all_group_parts of one group.
RECURSIVE GroupParts(_, _)
GroupParts(m, group) ==
    IF group = <<>> THEN <<>>
    ELSE FieldParts(m, Head(group)) \o GroupParts(m, Tail(group))

\* sep.join(parts).
RECURSIVE Join(_, _)
Join(parts, sep) ==
    IF parts = <<>> THEN <<>>
    ELSE IF Len(parts) = 1 THEN parts[1]
    ELSE parts[1] \o <<sep>> \o Join(Tail(parts), sep)

\* Line 54: parentheses only around more than one part.
ParenthesizeAlways(n) == n >= 1
Parenthesize(n) == n > 1

\* Lines 52-57: the string of a group that has parts.
GroupQuery(parts) ==
    IF Parenthesize(Len(parts))
    THEN <<"(">> \o Join(parts, " OR ") \o <<")">>
    ELSE Join(parts, " OR ")

\* Lines 25-57: grouped_queries; a group without parts is skipped (48-49).
RECURSIVE GroupedQueries(_, _)
GroupedQueries(m, groups) ==
    IF groups = <<>> THEN <<>>
    ELSE LET all_group_parts == GroupParts(m, Head(groups)) IN
         (IF all_group_parts = <<>> THEN <<>> ELSE <<GroupQuery(all_group_parts)>>)
         \o GroupedQueries(m, Tail(groups))

\* Lines 64-65: the keywords of a negative rule that get a clause:
\* logic["alone"].
NegativeKeywordsAll(logic) == KeywordsOf(logic)
NegativeKeywords(logic) == Get(logic, "alone")

\* Lines 59-65: not_queries.
RECURSIVE NotQueries(_)
NotQueries(negative_rules) ==
    IF negative_rules = <<>> THEN <<>>
    ELSE LET rule == Head(negative_rules)
             alone == NegativeKeywords(rule.logic)
         IN (IF rule.kind = "field" /\ rule.field # "" /\ alone # <<>>
             THEN [i \in 1..Len(alone) |-> NotClause(rule.field, alone[i])]
             ELSE <<>>)
            \o NotQueries(Tail(negative_rules))

\* filter(None, parts): the empty strings are dropped.
FilterNone(parts) == SelectSeq(parts, LAMBDA part : part # <<>>)

\* Line 67: final_parts = grouped_queries + not_queries.
FinalPartsNotFirst(grouped_queries, not_queries) == not_queries \o grouped_queries
FinalParts(grouped_queries, not_queries) == grouped_queries \o not_queries

\* Lines 26-27: the groups the loop runs over are those of the "groups"
\* list; the to_be rules are only looked up by the field names listed there.
GroupsConfigOnePerRule(c) ==
    [i \in 1..Len(c.to_be) |->
        <<IF c.to_be[i].kind = "field" THEN c.to_be[i].field ELSE "date">>]
GroupsConfig(c) == c.groups

\* Lines 8-68: QueryBuilder.build.
build(c) ==
    Join(FilterNone(FinalParts(GroupedQueries(PositiveRulesMap(c.to_be), GroupsConfig(c)),
                               NotQueries(c.not_to_be))),
         " AND ")

\* What build leaves in self.config: it assigns to locals only
\* (positive_rules_map, grouped_queries, not_queries, final_parts).
ConfigAfterBuildConsumes(c) == [c EXCEPT !.to_be = <<>>]
ConfigAfterBuild(c) == c

\* ------------------------------------------------------------- rulesets
Logics ==
    { EmptyDict,
      [alone |-> <<"x">>],
      [and |-> <<"a", "b">>, or |-> <<"o">>, alone |-> <<"x", "y">>] }

Range1 == [from |-> "2001", to |-> "2002"]
Range2 == [from |-> "2003", to |-> "2004"]

Rules ==
    {FieldRule("title", l) : l \in Logics}
    \cup {DateRule(<<>>), DateRule(<<Range1, Range2>>)}

\* "creator" has no rule.
Groups == {<<>>, <<"title">>, <<"title", "date">>, <<"creator">>}

SeqsOf(S, n) == UNION {[1..k -> S] : k \in 0..n}

NegativeLists ==
    { <<>>,
      <<FieldRule("title", [alone |-> <<"x", "y">>])>>,
      <<FieldRule("title", [and |-> <<"a">>, or |-> <<"o">>]),
        FieldRule("date", [and |-> <<"b">>, alone |-> <<"y", "z">>])>>,
      <<DateRule(<<Range1>>), FieldRule("date", [alone |-> <<"x">>])>> }

Builders == {1, 2}
NotBuilt == <<"not built">>

\* Two builders are constructed on one ruleset (lines 4-6).
QueryInit ==
    /\ config \in [to_be : SeqsOf(Rules, MaxRules),
                   groups : SeqsOf(Groups, MaxGroups),
                   not_to_be : NegativeLists]
    /\ config0 = config
    /\ results = [b \in Builders |-> NotBuilt]
    /\ first = NotBuilt

\* builder b's build() is called and returns.
Build(b) ==
    /\ results' = [results EXCEPT ![b] = build(config)]
    /\ first' = IF first = NotBuilt THEN build(config) ELSE first
    /\ config' = ConfigAfterBuild(config)
    /\ config0' = config0
    /\ UNCHANGED <<dvars, svars, o_pc, cvars>>

QueryNext == \E b \in Builders : Build(b)

\* ================================================================ client
\* Most tasks calling operations of one client at the same time.
MaxTasks == 3
Tasks == 1..MaxTasks

\* The operations decorated with @client_initialized (lines 160-499), by what
\* their bodies do to the session: get / post send a request through it,
\* close closes it, search_items only constructs an AsyncSearch.
Operations == {"get", "post", "close", "search_items"}

\* InternetArchiveClient.__init__, lines 40-51; no operation called yet.
ClientInit ==
    /\ initialized = FALSE
    /\ init_lock = 0
    /\ session = "none"
    /\ init_runs = 0
    /\ c_pc = [t \in Tasks |-> "idle"]
    /\ c_op \in [Tasks -> Operations]
    /\ touched = {}

\* Line 60: the check repeated under the lock.
NeedsInitAlways(flag) == TRUE
NeedsInit(flag) == ~flag

\* Lines 59-63 once the lock is held by task t: the second check, then
\* either the body starts and suspends at `await get_config()`, or the lock
\* is released and the wrapper goes on to the operation.
UnderLock(t) ==
    IF NeedsInit(initialized)
    THEN /\ init_lock' = t
         /\ c_pc' = [c_pc EXCEPT ![t] = "loading"]
    ELSE /\ init_lock' = 0
         /\ c_pc' = [c_pc EXCEPT ![t] = "run"]

\* Lines 31-33 and 58-60: task t calls an operation; the wrapper awaits
\* _ensure_initialized.  Nothing suspends between the first check and
\* taking a free lock; with the lock held the task waits for it.
Call(t) ==
    /\ c_pc[t] = "idle"
    /\ IF initialized
       THEN c_pc' = [c_pc EXCEPT ![t] = "run"] /\ init_lock' = init_lock
       ELSE IF init_lock = 0
       THEN UnderLock(t)
       ELSE c_pc' = [c_pc EXCEPT ![t] = "waiting"] /\ init_lock' = init_lock
    /\ UNCHANGED <<initialized, session, init_runs, c_op, touched>>
    /\ UNCHANGED <<dvars, svars, qvars, o_pc>>

\* Line 59: a waiting task gets the released lock.
Acquire(t) ==
    /\ c_pc[t] = "waiting"
    /\ init_lock = 0
    /\ UnderLock(t)
    /\ UNCHANGED <<initialized, session, init_runs, c_op, touched>>
    /\ UNCHANGED <<dvars, svars, qvars, o_pc>>

\* Lines 63-76: get_config returns; the rest of the body has no await:
\* session created, cookies set, flag set; the lock is released.
InitCompletes(t) ==
    /\ c_pc[t] = "loading"
    /\ session' = "open"
    /\ initialized' = TRUE
    /\ init_runs' = init_runs + 1
    /\ init_lock' = 0
    /\ c_pc' = [c_pc EXCEPT ![t] = "run"]
    /\ UNCHANGED <<c_op, touched>>
    /\ UNCHANGED <<dvars, svars, qvars, o_pc>>

\* Lines 63-73 raise: get_config fails or the task is cancelled at the await
\* (no session yet), or _set_cookies fails after line 65 created the
\* session.  `async with` releases the lock, the flag stays unset and the
\* wrapper never reaches the operation.
InitFails(t) ==
    /\ c_pc[t] = "loading"
    /\ \E created \in BOOLEAN :
         session' = IF created THEN "open" ELSE session
    /\ init_lock' = 0
    /\ c_pc' = [c_pc EXCEPT ![t] = "failed"]
    /\ UNCHANGED <<initialized, init_runs, c_op, touched>>
    /\ UNCHANGED <<dvars, svars, qvars, o_pc>>

\* Line 34: the operation's body runs: get / post use self._session
\* (178, 219), close closes it (498-499), search_items does not use it.
Operate(t) ==
    /\ c_pc[t] = "run"
    /\ touched' = touched \cup
         {[task |-> t, op |-> c_op[t], initialized |-> initialized,
           session |-> session, init_runs |-> init_runs]}
    /\ session' = IF c_op[t] = "close" /\ session = "open" THEN "closed" ELSE session
    /\ c_pc' = [c_pc EXCEPT ![t] = "done"]
    /\ UNCHANGED <<initialized, init_lock, init_runs, c_op>>
    /\ UNCHANGED <<dvars, svars, qvars, o_pc>>

ClientNext ==
    \E t \in Tasks :
        \/ Call(t)
        \/ Acquire(t)
        \/ InitCompletes(t)
        \/ InitFails(t)
        \/ Operate(t)

ClientIdle ==
    /\ initialized = FALSE
    /\ init_lock = 0
    /\ session = "none"
    /\ init_runs = 0
    /\ c_pc = [t \in Tasks |-> "idle"]
    /\ c_op = [t \in Tasks |-> "get"]
    /\ touched = {}

QueryIdle ==
    /\ config = [to_be |-> <<>>, groups |-> <<>>, not_to_be |-> <<>>]
    /\ config0 = config
    /\ results = [b \in Builders |-> NotBuilt]
    /\ first = NotBuilt

\* ================================================================= specs
\* The pagination engine alone: download is never called.
DownloadIdle ==
    /\ opts = [return_responses |-> FALSE, checksum |-> FALSE,
               checksum_archive |-> FALSE, ignore_existing |-> FALSE,
               ignore_errors |-> FALSE, sink |-> "file", destdir |-> "none",
               dry_run |-> FALSE, retries |-> 0]
    /\ remote = <<>>
    /\ local = NoFile
    /\ ledger = [exists |-> FALSE, lines |-> <<>>]
    /\ d_pc = "idle"
    /\ headers = NoHeaders
    /\ requests = <<>>
    /\ attempts = <<>>
    /\ sleeps = 0
    /\ hashed = FALSE
    /\ outcome = "none"
    /\ body = <<>>
    /\ write_mode = "none"
    /\ sink = <<>>
    /\ local0 = NoFile
    /\ retries0 = 0
    /\ parent = "absent"
    /\ fs_ops = <<>>
    /\ call = [n |-> 1, retries |-> 0]

SearchIdle ==
    /\ search_options = [query |-> <<"q0">>, fts |-> FALSE, dsl_fts |-> FALSE,
                         params |-> EmptyDict, fields |-> <<>>, sorts |-> <<>>]
    /\ s_pc = "unbuilt"
    /\ data = EmptyDict
    /\ queue = <<>>
    /\ cont = "none"
    /\ yielded = <<>>
    /\ responses = <<>>
    /\ num_found = None
    /\ server_total = 0
    /\ s_outcome = "none"
    /\ o_pc = "unstarted"

\* The transfer engine alone: the pagination engine stays unbuilt.
InitDownload == DownloadInit /\ SearchIdle /\ QueryIdle /\ ClientIdle
SpecDownload == InitDownload /\ [][DownloadNext]_vars

\* A sequence of download calls sharing one DownloadOptions object.
InitRepeatedDownload == RepeatedDownloadInit /\ SearchIdle /\ QueryIdle /\ ClientIdle
SpecRepeatedDownload == InitRepeatedDownload /\ [][RepeatedDownloadNext]_vars

InitSearch == DownloadIdle /\ SearchInit /\ QueryIdle /\ ClientIdle
SpecSearch == InitSearch /\ [][SearchNext]_vars

\* Two enumerations of one AsyncSearch, advanced in any interleaving.
InitTwoEnumerations == DownloadIdle /\ SearchInit /\ QueryIdle /\ ClientIdle
TwoEnumerationsNext == SearchNext \/ OtherStart \/ OtherResponse
SpecTwoEnumerations == InitTwoEnumerations /\ [][TwoEnumerationsNext]_vars

\* Two AsyncSearch objects constructed from one SearchOptions object.
InitSecondConstruction == DownloadIdle /\ SearchInit /\ QueryIdle /\ ClientIdle
SecondConstructionNext == SearchNext \/ Reconstruct
SpecSecondConstruction == InitSecondConstruction /\ [][SecondConstructionNext]_vars

\* The query builder alone.
InitQuery == DownloadIdle /\ SearchIdle /\ QueryInit /\ ClientIdle
SpecQuery == InitQuery /\ [][QueryNext]_vars

\* Concurrent operations on one InternetArchiveClient.
InitClient == DownloadIdle /\ SearchIdle /\ QueryIdle /\ ClientInit
SpecClient == InitClient /\ [][ClientNext]_vars

\* ================================================================ claims
\* Every finished attempt of the transfer ended in a failed request.
EveryRequestFailed ==
    /\ attempts # <<>>
    /\ \A i \in 1..Len(attempts) : attempts[i] = "request"

\* C1: when every request of a transfer fails and the budget starts at N,
\* download makes exactly N retries (N+1 requests, N sleeps) and then raises,
\* or returns False when ignore_errors is set; never more than N+1 requests.
C1_RetryBudgetExhausted ==
    EveryRequestFailed =>
      /\ Len(requests) <= retries0 + 1
      /\ sleeps <= retries0
      /\ d_pc = "done" =>
           /\ Len(requests) = retries0 + 1
           /\ sleeps = retries0
           /\ outcome = IF opts.ignore_errors THEN "False" ELSE "raised"

C1_Witness ==
    /\ EveryRequestFailed
    /\ d_pc = "done"
    /\ retries0 = MaxRetries
    /\ Len(requests) = MaxRetries + 1
    /\ outcome = "False"

\* The transfer resumes a partial file onto the filesystem sink.
ResumeCase ==
    /\ local0.exists
    /\ Len(local0.data) < Len(remote)
    /\ ~opts.checksum /\ ~opts.checksum_archive /\ ~opts.ignore_existing
    /\ ~opts.return_responses
    /\ opts.sink = "file"

\* C2: resuming a partial file of size P < S, the request carries
\* Range: bytes=P-, the body is appended, and when download returns True the
\* local file has size S.
C2_ResumeReachesRemoteSize ==
    ResumeCase =>
      /\ requests # <<>> => requests[1] = RangeHeader(Len(local0.data))
      /\ write_mode \in {"none", "ab"}
      /\ outcome = "True" => Len(local.data) = Len(remote)

\* C3: in checksum mode an existing destination whose md5 equals the remote
\* md5 is skipped: None is returned, no request is issued, the file is kept.
C3_ChecksumMatchSkips ==
    ( /\ opts.checksum /\ ~opts.ignore_existing /\ ~opts.return_responses
      /\ local0.exists
      /\ PyEq(get_md5(local0.data), self_md5)
      /\ d_pc # "idle" )
    => /\ requests = <<>>
       /\ local = local0
       /\ d_pc = "done" /\ outcome = "None"

\* ------------------------------------------------------ pagination claims
\* The protocol that drives the enumeration, once the engine is constructed.
Mode == IF s_pc = "unbuilt" THEN "none" ELSE Protocol(search_options)

\* A response that is a batch of n records, without an error field.
IsBatch(r, n) == r.ok /\ ~r.error /\ r.has /\ r.n = n

\* C4: bulk-scrape over a transport that returns a batch, a second batch and
\* then an empty items list yields the first batch then the second, in order,
\* and terminates: no fourth request is issued.
C4_ScrapeStopsOnEmptyItems ==
    ( /\ Mode = "scrape"
      /\ Len(responses) >= 3
      /\ \E n1, n2 \in 1..MaxBatch :
           IsBatch(responses[1], n1) /\ IsBatch(responses[2], n2)
      /\ IsBatch(responses[3], 0) )
    => /\ Len(responses) = 3
       /\ s_pc = "done" /\ s_outcome = "end"
       /\ yielded = Items(1, responses[1].n) \o Items(2, responses[2].n)

\* A full-text response without hits: the hits list is absent or empty.
NoHits(r) == r.ok /\ (~r.has \/ r.n = 0)

\* The records of response k that the consumer has or is about to get.
RecordsOf(k) ==
    {i \in 1..Len(yielded) : yielded[i].req = k}
      \cup {i \in 1..Len(queue) : queue[i].req = k}

\* C5: full-text-scroll ends at the first response without hits, scrolling
\* requested or not: nothing is yielded for it and no request follows it.
C5_FtsEndsOnNoHits ==
    Mode = "fts" =>
      \A k \in 1..Len(responses) :
        NoHits(responses[k]) =>
          /\ k = Len(responses)
          /\ s_pc = "done" /\ s_outcome = "end"
          /\ RecordsOf(k) = {}

C5_Witness ==
    /\ Mode = "fts"
    /\ "size" \notin DOMAIN search_options.params
    /\ Len(responses) = 2
    /\ responses[1].ok /\ responses[1].n >= 1
    /\ NoHits(responses[2])
    /\ Len(yielded) = 1
    /\ s_pc = "done"

\* The documents of the single offset-paged response.
Docs(r) == [i \in 1..(IF r.ok THEN r.n ELSE 0) |-> Record("doc", 1, i)]

\* C6: offset-paged enumeration issues exactly one request, whatever numFound
\* and however many documents; it yields that response's documents in order
\* and ends.
C6_AdvancedSingleRequest ==
    Mode = "advanced" =>
      /\ Len(responses) <= 1
      /\ s_pc = "yielding" => yielded \o queue = Docs(responses[1])
      /\ s_pc = "done" =>
           /\ Len(responses) = 1
           /\ s_outcome = "end"
           /\ yielded = Docs(responses[1])

C6_Witness ==
    /\ Mode = "advanced"
    /\ s_pc = "done"
    /\ responses[1].ok
    /\ responses[1].total > responses[1].n
    /\ Len(yielded) = MaxBatch

\* No request of the enumeration failed in the transport.
NoTransportError == \A k \in 1..Len(responses) : responses[k].ok

\* C7: full-text mode with a caller-supplied `size` (scrolling disabled)
\* performs exactly one request, even if the response has hits.
C7_FtsFixedSizeSingleRequest ==
    ( /\ Mode = "fts"
      /\ "size" \in DOMAIN search_options.params
      /\ NoTransportError )
    => Len(responses) <= 1

RECURSIVE ScrapeRecords(_)
\* What bulk-scrape yields for the first j responses: per response the
\* response itself when it carries an error field, then its items.
ScrapeRecords(j) ==
    IF j = 0 THEN <<>>
    ELSE ScrapeRecords(j - 1)
           \o (IF responses[j].ok /\ responses[j].error
               THEN <<Record("json", j, 0)>> ELSE <<>>)
           \o (IF responses[j].ok /\ responses[j].has
               THEN Items(j, responses[j].n) ELSE <<>>)

\* C8: in bulk-scrape the first failed request ends the enumeration: it is
\* not retried, nothing is requested afterwards, and the records of the
\* earlier responses have all been delivered in order.
C8_ScrapeStopsOnTransportError ==
    Mode = "scrape" =>
      \A k \in 1..Len(responses) :
        ~responses[k].ok =>
          /\ k = Len(responses)
          /\ s_pc = "done" /\ s_outcome = "end"
          /\ yielded = ScrapeRecords(k - 1)

C8_Witness ==
    /\ Mode = "scrape"
    /\ Len(responses) = 3
    /\ ~responses[3].ok
    /\ Len(yielded) >= 2
    /\ s_pc = "done"

\* C9: in full-text mode a failed request ends the enumeration: no request
\* is issued after it.
C9_FtsStopsOnTransportError ==
    Mode = "fts" =>
      \A k \in 1..Len(responses) :
        ~responses[k].ok => k = Len(responses) /\ s_pc = "done"

\* Exceptions raised out of the call that fetches a page.
FetchErrors == {"TypeError", "ClientError"}

\* C10: in every protocol mode an error raised while fetching a page is
\* logged, never re-raised: the consumer sees only records or the end.
C10_FetchErrorsNotRaised == s_outcome \notin FetchErrors

\* The protocol whose code the enumeration is in: the generator's position,
\* or the position it resumes at while buffered records are handed out.
ProtocolOf(pc) ==
    CASE pc \in {"scrape", "scrape_items"} -> "scrape"
      [] pc \in {"fts", "advanced", "aggs"} -> pc
      [] OTHER -> "none"
Running == ProtocolOf(IF s_pc = "yielding" THEN cont ELSE s_pc)
FirstMatch ==
    IF search_options.fts THEN "fts"
    ELSE IF "user_aggs" \in DOMAIN search_options.params THEN "aggs"
    ELSE IF "page" \in DOMAIN search_options.params THEN "advanced"
    ELSE "scrape"

\* C11: an enumeration is driven by exactly one protocol, the first match of
\* full-text, user_aggs, page, else scrape, evaluated on the constructed
\* options: the running protocol is that one and every request the
\* enumeration has sent was sent by it.
C11_OneProtocolFirstMatch ==
    s_pc \notin {"unbuilt", "ready"} =>
      /\ Running \in {"none", FirstMatch}
      /\ \A k \in 1..Len(responses) : responses[k].via = FirstMatch
C11_Witness ==
    /\ search_options.fts
    /\ {"user_aggs", "page"} \subseteq DOMAIN search_options.params
    /\ Len(responses) >= 2
    /\ Running = "fts"

\* The transfer is in ledger mode with the skip checks in force: capture mode
\* off, and the destination directory usable.
LedgerMode ==
    opts.checksum_archive /\ ~opts.return_responses /\ opts.destdir = "none"
\* The ledger file has a line holding the destination path.
LedgerRecords(p) ==
    ledger.exists /\ \E i \in 1..Len(ledger.lines) : ledger.lines[i].text = p

\* C12: in ledger mode, when the destination exists and the ledger records
\* its path, download returns None without hashing the file and without
\* issuing a request.
C12_LedgerHitSkips ==
    (LedgerMode /\ local0.exists /\ LedgerRecords(FilePath) /\ d_pc # "idle") =>
      /\ d_pc = "done" /\ outcome = "None"
      /\ ~hashed
      /\ requests = <<>>

\* C13: in ledger mode a destination whose md5 equals the remote md5 (and
\* which no earlier check skips) is skipped and its path is appended to the
\* ledger, so that the ledger records the path from then on.
C13_ChecksumSkipAppendsToLedger ==
    ( /\ LedgerMode /\ ~opts.ignore_existing
      /\ local0.exists /\ PyEq(get_md5(local0.data), self_md5)
      /\ ledger.exists /\ ~LedgerHit(ledger.lines)
      /\ d_pc # "idle" ) =>
      /\ d_pc = "done" /\ outcome = "None"
      /\ requests = <<>>
      /\ LedgerRecords(FilePath)

\* C14: in ledger mode the ledger file is created on demand: once the skip
\* checks of a transfer to an existing destination have run the ledger
\* exists, and the transfer has not failed on opening it.
C14_LedgerCreatedOnDemand ==
    (LedgerMode /\ local0.exists /\ d_pc # "idle") =>
      /\ ledger.exists
      /\ outcome # "FileNotFoundError"

\* C15: when the destination exists and ignore_existing is set (capture mode
\* off, no ledger hit), download returns None before any request and without
\* hashing, whether or not checksum mode is set.
C15_IgnoreExistingSkips ==
    ( /\ opts.ignore_existing /\ ~opts.return_responses
      /\ opts.destdir = "none"
      /\ local0.exists
      /\ ~(opts.checksum_archive /\ LedgerHit(ledger.lines))
      /\ d_pc # "idle" ) =>
      /\ d_pc = "done" /\ outcome = "None"
      /\ ~hashed
      /\ requests = <<>>

\* C16: when destdir names an existing regular file, download raises OSError
\* at once: no request, no hashing, no retry decrement, no sleep, nothing
\* written, whatever ignore_errors says.
C16_DestdirIsFileRaises ==
    (opts.destdir = "file" /\ d_pc # "idle") =>
      /\ d_pc = "done" /\ outcome = "OSError"
      /\ requests = <<>> /\ attempts = <<>>
      /\ opts.retries = retries0 /\ sleeps = 0
      /\ ~hashed /\ local = local0 /\ sink = <<>>
C16_Witness ==
    /\ opts.destdir = "file"
    /\ opts.ignore_errors
    /\ opts.retries = MaxRetries
    /\ outcome = "OSError"

\* C17: in checksum or ledger mode (ignore_existing unset, capture mode
\* off), a destination that does not exist makes download raise at once:
\* no request, no retry budget consumed, and no False under ignore_errors.
C17_MissingChecksumTargetRaises ==
    ( /\ opts.checksum \/ opts.checksum_archive
      /\ ~opts.ignore_existing /\ ~opts.return_responses
      /\ opts.destdir = "none"
      /\ ~local0.exists
      /\ d_pc # "idle" ) =>
      /\ d_pc = "done" /\ outcome = "FileNotFoundError"
      /\ requests = <<>>
      /\ opts.retries = retries0 /\ sleeps = 0

\* C18: with dry_run set, download issues no request and writes nothing to
\* the destination or to any sink.
C18_DryRunNoRequestNoWrite ==
    opts.dry_run => requests = <<>> /\ local = local0 /\ sink = <<>>

\* C19: a cancellation that arrives while download is suspended at the
\* request, at a chunk or in the inter-retry sleep ends the transfer with the
\* cancellation itself: no retry, no budget decrement, no sleep, no False
\* under ignore_errors, and the bytes already written stay as they are.
C19_CancellationPropagates ==
    [][ ( /\ Len(attempts') = Len(attempts) + 1
          /\ attempts'[Len(attempts')] = "CancelledError" ) =>
        ( /\ d_pc' = "done" /\ outcome' = "CancelledError"
          /\ opts' = opts
          /\ requests' = requests /\ sleeps' = sleeps
          /\ local' = local /\ sink' = sink ) ]_vars
C19_Witness ==
    /\ outcome = "CancelledError"
    /\ opts.ignore_errors /\ opts.retries > 0
    /\ sleeps >= 1
    /\ opts.sink = "file"
    /\ local # local0
    /\ Len(local.data) < Len(remote)

Built == first # NotBuilt
RulesMap0 == PositiveRulesMap(config0.to_be)
\* The clauses the i-th group of the ruleset produces.
PartsOfGroup(i) == GroupParts(RulesMap0, config0.groups[i])
\* How often the piece tok occurs in a query string.
Count(out, tok) == Cardinality({i \in 1..Len(out) : out[i] = tok})

\* C21: a group with two or more clauses is emitted as the clauses joined by
\* " OR " inside one pair of parentheses, a group with one clause as that
\* clause alone, a group with none not at all; no "(" is directly followed
\* by ")".
C21_GroupParentheses ==
    Built =>
      LET many == {i \in 1..Len(config0.groups) : Len(PartsOfGroup(i)) >= 2} IN
      /\ Count(first, "(") = Cardinality(many)
      /\ Count(first, ")") = Cardinality(many)
      /\ \A i \in 1..(Len(first) - 1) : first[i] = "(" => first[i + 1] # ")"
      /\ (Len(config0.groups) = 1 /\ config0.not_to_be = <<>>) =>
           LET parts == PartsOfGroup(1) IN
           first = IF Len(parts) >= 2
                   THEN <<"(">> \o Join(parts, " OR ") \o <<")">>
                   ELSE IF Len(parts) = 1 THEN parts[1] ELSE <<>>
C21_Witness ==
    /\ Built
    /\ Len(config0.groups) = 2
    /\ Len(PartsOfGroup(1)) >= 2
    /\ Len(PartsOfGroup(2)) = 1
    /\ Count(first, "(") = 1

\* The NOT clauses of a query string, in the order they occur in it.
RECURSIVE NotClausesIn(_)
NotClausesIn(out) ==
    IF out = <<>> THEN <<>>
    ELSE IF Head(out) = "NOT "
    THEN <<SubSeq(out, 1, 5)>> \o NotClausesIn(SubSeq(out, 6, Len(out)))
    ELSE NotClausesIn(Tail(out))
\* One NOT field:"keyword" per keyword of each rule's `alone` list, rule
\* order then keyword order.
RECURSIVE ExpectedNots(_)
ExpectedNots(rules) ==
    IF rules = <<>> THEN <<>>
    ELSE LET r == Head(rules)
             alone == IF "alone" \in DOMAIN r.logic THEN r.logic["alone"] ELSE <<>>
         IN [i \in 1..Len(alone) |-> <<"NOT ", r.field, ":\"", alone[i], "\"">>]
            \o ExpectedNots(Tail(rules))

\* C22: the NOT clauses of the output are exactly one NOT field:"keyword"
\* per keyword of each negative rule's `alone` list, in rule order then
\* keyword order; `and` and `or` keywords of a negative rule give no clause.
C22_NotClausesFromAloneOnly ==
    Built => NotClausesIn(first) = ExpectedNots(config0.not_to_be)
C22_Witness ==
    /\ Built
    /\ Len(config0.not_to_be) = 2
    /\ "and" \in DOMAIN config0.not_to_be[1].logic
    /\ "and" \in DOMAIN config0.not_to_be[2].logic
    /\ Len(NotClausesIn(first)) = 2
    /\ Count(first, "(") >= 1

\* The pieces of a query string between its top-level " AND " separators.
RECURSIVE SplitAnd(_, _)
SplitAnd(out, acc) ==
    IF out = <<>> THEN <<acc>>
    ELSE IF Head(out) = " AND " THEN <<acc>> \o SplitAnd(Tail(out), <<>>)
    ELSE SplitAnd(Tail(out), Append(acc, Head(out)))
\* The string each group with clauses is emitted as, in grouping-list order.
RECURSIVE GroupClauses(_)
GroupClauses(i) ==
    IF i > Len(config0.groups) THEN <<>>
    ELSE LET parts == PartsOfGroup(i) IN
         (IF parts = <<>> THEN <<>>
          ELSE IF Len(parts) = 1 THEN <<parts[1]>>
          ELSE <<(<<"(">> \o Join(parts, " OR ") \o <<")">>)>>)
         \o GroupClauses(i + 1)
EmptyRuleset == [to_be |-> <<>>, groups |-> <<>>, not_to_be |-> <<>>]

\* C23: the output is the non-empty group clauses in grouping-list order,
\* then all NOT clauses, joined by " AND "; the empty ruleset gives the
\* empty string; the output neither starts nor ends with " AND ".
C23_AndJoinedGroupsThenNots ==
    Built =>
      LET top == GroupClauses(1) \o ExpectedNots(config0.not_to_be) IN
      /\ top = <<>> => first = <<>>
      /\ top # <<>> => SplitAnd(first, <<>>) = top
      /\ config0 = EmptyRuleset => first = <<>>
      /\ first # <<>> => first[1] # " AND " /\ first[Len(first)] # " AND "
C23_Witness ==
    /\ Built
    /\ Len(GroupClauses(1)) = 2
    /\ Len(ExpectedNots(config0.not_to_be)) = 2
    /\ Count(first, " AND ") = 3

\* The clauses of a parenthesised or bare group string, split at " OR ".
RECURSIVE SplitOr(_, _)
SplitOr(out, acc) ==
    IF out = <<>> THEN <<acc>>
    ELSE IF Head(out) = " OR " THEN <<acc>> \o SplitOr(Tail(out), <<>>)
    ELSE IF Head(out) \in {"(", ")"} THEN SplitOr(Tail(out), acc)
    ELSE SplitOr(Tail(out), Append(acc, Head(out)))
\* Per field of the group, in the group's order: the clauses of the field's
\* `and` list, then `or` list, then `alone` list (or its one date clause).
RECURSIVE ExpectedClauses(_)
ExpectedClauses(group) ==
    IF group = <<>> THEN <<>>
    ELSE LET f == Head(group)
             of(k) == IF k \in DOMAIN RulesMap0[f].val THEN RulesMap0[f].val[k] ELSE <<>>
             cl(kws) == [i \in 1..Len(kws) |-> <<f, ":\"", kws[i], "\"">>]
         IN (IF f \notin DOMAIN RulesMap0 THEN <<>>
             ELSE IF RulesMap0[f].kind = "str" THEN <<RulesMap0[f].val>>
             ELSE cl(of("and")) \o cl(of("or")) \o cl(of("alone")))
            \o ExpectedClauses(Tail(group))

\* C30: a group's clauses are, field by field in the group's order, one
\* field:"keyword" per keyword of the field's `and`, then `or`, then `alone`
\* list, and OR is the only connective between them.
C30_GroupClauseOrder ==
    (Built /\ Len(config0.groups) = 1 /\ config0.not_to_be = <<>>) =>
      LET expected == ExpectedClauses(config0.groups[1]) IN
      /\ expected = <<>> => first = <<>>
      /\ expected # <<>> => SplitOr(first, <<>>) = expected
      /\ Count(first, " AND ") = 0
      /\ Count(first, " OR ") = IF expected = <<>> THEN 0 ELSE Len(expected) - 1
C30_Witness ==
    /\ Built /\ Len(config0.groups) = 1 /\ config0.not_to_be = <<>>
    /\ config0.groups[1] = <<"title", "date">>
    /\ Len(ExpectedClauses(config0.groups[1])) = 6
    /\ Count(first, " OR ") = 5

IsPrefix(a, b) == Len(a) <= Len(b) /\ SubSeq(b, 1, Len(a)) = a

\* C24: in bulk-scrape a response with a non-empty error field is handed to
\* the consumer as one record, after the records of the earlier responses
\* and in their order; nothing is raised; and when the response has an
\* items list its items follow and the enumeration is not ended by it.
C24_ScrapeErrorRecordYielded ==
    Mode = "scrape" =>
      \A k \in 1..Len(responses) :
        (responses[k].ok /\ responses[k].error) =>
          /\ s_outcome \in {"none", "end"}
          /\ IsPrefix(ScrapeRecords(k - 1) \o <<Record("json", k, 0)>>,
                      yielded \o queue)
          /\ responses[k].has =>
               /\ (k < Len(responses) \/ s_pc = "scrape") =>
                    IsPrefix(ScrapeRecords(k), yielded)
               /\ k = Len(responses) => s_pc # "done"
C24_Witness ==
    /\ Mode = "scrape"
    /\ Len(responses) = 3
    /\ IsBatch(responses[1], 1)
    /\ responses[2].ok /\ responses[2].error /\ responses[2].has
    /\ responses[2].n = 1
    /\ IsBatch(responses[3], 1)
    /\ yielded = <<Record("item", 1, 1), Record("json", 2, 0),
                   Record("item", 2, 1), Record("item", 3, 1)>>

\* ------------------------------------------------- transfer claims, cont.
\* C25: in capture mode download returns the response of the first request
\* that succeeds, without reading its body, and leaves the filesystem as it
\* was: no skip check (no hashing, no skip or missing-file outcome), no
\* makedirs, no Range header, no write to the destination or a sink, no
\* os.utime.
C25_CaptureModeLeavesFilesystem ==
    (opts.return_responses /\ opts.destdir = "none") =>
      /\ local = local0 /\ fs_ops = <<>>
      /\ ~local0.exists => parent # "dir"
      /\ ~hashed
      /\ outcome \in {"none", "response", "False", "raised", "CancelledError"}
      /\ \A i \in 1..Len(requests) : requests[i] = NoHeaders
      /\ d_pc # "streaming" /\ body = <<>> /\ write_mode = "none" /\ sink = <<>>
      /\ outcome = "response" =>
           /\ Len(attempts) = Len(requests)
           /\ attempts[Len(attempts)] = "ok"
           /\ \A i \in 1..(Len(attempts) - 1) : attempts[i] = "request"
C25_Witness ==
    /\ opts.return_responses /\ opts.destdir = "none"
    /\ opts.checksum /\ opts.ignore_existing
    /\ local0.exists /\ Len(local0.data) < Len(remote)
    /\ Len(requests) = 2
    /\ outcome = "response"

\* C27: the request of every attempt carries Range: bytes=K- exactly when,
\* at the start of that attempt, the destination exists with a size K
\* different from the remote size, capture mode is off and neither checksum
\* nor ledger mode is active; otherwise it is a full request.  The
\* destination is opened for append exactly when that request had a Range.
C27_RangePerAttempt ==
    /\ d_pc = "awaiting" =>
         requests[Len(requests)] =
           IF /\ local.exists /\ Len(local.data) # Len(remote)
              /\ ~opts.return_responses
              /\ ~opts.checksum /\ ~opts.checksum_archive
           THEN RangeHeader(Len(local.data))
           ELSE NoHeaders
    /\ (d_pc = "streaming" /\ opts.sink = "file") =>
         (write_mode = "ab" <=> "Range" \in DOMAIN requests[Len(requests)])

\* C28: a failed attempt that finds budget > 0 takes exactly 1 from it and
\* is followed by one sleep and then the next attempt; one that finds no
\* budget ends the transfer without a sleep; the budget never goes below 0
\* and never grows.
C28_RetryDecrementThenSleep ==
    /\ [](opts.retries >= 0 /\ opts.retries <= retries0)
    /\ [](sleeps <= retries0 - opts.retries)
    /\ [](d_pc \in {"loop", "awaiting", "streaming"} =>
            sleeps = retries0 - opts.retries)
    /\ []((d_pc = "done" /\ outcome # "CancelledError") =>
            sleeps = retries0 - opts.retries)
    /\ [][ /\ opts'.retries <= opts.retries
           /\ ( /\ Len(attempts') = Len(attempts) + 1
                /\ attempts'[Len(attempts')] \notin {"ok", "CancelledError"} ) =>
                IF opts.retries > 0
                THEN opts'.retries = opts.retries - 1 /\ d_pc' = "sleeping"
                     /\ sleeps' = sleeps
                ELSE opts'.retries = opts.retries /\ d_pc' = "done"
                     /\ sleeps' = sleeps
           /\ (d_pc = "sleeping" /\ d_pc' # "sleeping") =>
                \/ sleeps' = sleeps + 1 /\ d_pc' = "loop"
                \/ outcome' = "CancelledError"
           /\ sleeps' # sleeps => d_pc = "sleeping" /\ sleeps' = sleeps + 1
         ]_vars
C28_Witness ==
    /\ retries0 = MaxRetries
    /\ opts.retries = 0
    /\ sleeps = MaxRetries
    /\ d_pc = "done" /\ outcome = "raised"
    /\ \E i \in 1..Len(attempts) : attempts[i] = "stream"
    /\ \E i \in 1..Len(attempts) : attempts[i] = "request"

\* C29: when makedirs of the destination's parent fails because a path
\* component is an existing non-directory, the transfer ends with that
\* error at once: no retry, no budget decrement, no sleep.
C29_MakedirsFailureNotRetried ==
    (\E i \in 1..Len(attempts) : attempts[i] = "makedirs") =>
      /\ Len(attempts) = 1
      /\ d_pc = "done"
      /\ opts.retries = retries0
      /\ sleeps = 0

\* C26: an enumeration shares no paging state with another enumeration of
\* the same AsyncSearch: its total-count is its own, so until it has
\* received a response of its own its total-count is unknown.
C26_EnumerationOwnsPagingState ==
    (s_pc # "unbuilt" /\ responses = <<>>) => num_found = None

\* ---------------------------------------------------------------- C31
\* The field a must-rule names: its "field", or "date" for a date rule.
RuleName(rule) == IF rule.kind = "field" THEN rule.field ELSE "date"

\* The position of the last must-rule naming field f; 0 when there is none.
LastRuleFor(rules, f) ==
    LET S == {i \in 1..Len(rules) : RuleName(rules[i]) = f}
    IN IF S = {} THEN 0 ELSE CHOOSE i \in S : \A j \in S : j <= i

\* The clauses one must-rule stands for: its keywords' clauses, or the one
\* clause of its first range, or nothing for a date rule without a range.
ClausesOfRule(rule) ==
    IF rule.kind = "field" THEN Clauses(rule.field, KeywordsOf(rule.logic))
    ELSE IF rule.ranges # <<>> THEN <<DateClause(rule.ranges[1])>>
    ELSE <<>>

\* The clauses of a group when only the last rule of each field counts.
RECURSIVE LastRuleParts(_, _)
LastRuleParts(rules, group) ==
    IF group = <<>> THEN <<>>
    ELSE (IF LastRuleFor(rules, Head(group)) = 0 THEN <<>>
          ELSE ClausesOfRule(rules[LastRuleFor(rules, Head(group))]))
         \o LastRuleParts(rules, Tail(group))

\* The group strings when only the last rule of each field counts.
RECURSIVE LastRuleGroups(_, _)
LastRuleGroups(rules, groups) ==
    IF groups = <<>> THEN <<>>
    ELSE (IF LastRuleParts(rules, Head(groups)) = <<>> THEN <<>>
          ELSE <<GroupQuery(LastRuleParts(rules, Head(groups)))>>)
         \o LastRuleGroups(rules, Tail(groups))

\* C31: when several must-rules name the same field only the last of them
\* contributes clauses; a date rule with a range contributes the single
\* clause date:[from TO to], a date rule without a range contributes
\* nothing: the query returned is the one made of the clauses of the last
\* rule of each field.
C31_LastRuleForFieldWins ==
    Built => first = Join(LastRuleGroups(config0.to_be, config0.groups)
                          \o NotQueries(config0.not_to_be), " AND ")

\* ---------------------------------------------------------------- C40
\* The fields that occur in rules or groups of the rulesets.
FieldNames == {"title", "date", "creator"}

\* How many positive clauses of field f a query string holds: a clause
\* f:"kw" not preceded by NOT, or, for date, a range clause.
PositiveClauses(out, f) ==
    Cardinality({i \in 1..(Len(out) - 1) :
                    /\ out[i] = f
                    /\ out[i + 1] = ":\""
                    /\ (i = 1 \/ out[i - 1] # "NOT ")})
    + (IF f = "date" THEN Count(out, "date:[") ELSE 0)

\* How many times the grouping list names field f.
RECURSIVE Listings(_, _)
Listings(groups, f) ==
    IF groups = <<>> THEN 0
    ELSE Cardinality({j \in 1..Len(Head(groups)) : Head(groups)[j] = f})
         + Listings(Tail(groups), f)

\* C40: a must-rule whose field no group lists contributes no clause, every
\* positive clause belongs to a field some group lists, and a field listed
\* in k groups contributes its clauses k times.
C40_ClausesOnlyThroughGroups ==
    Built => \A f \in FieldNames :
                 PositiveClauses(first, f)
                   = Listings(config0.groups, f) * Len(FieldParts(RulesMap0, f))

\* A built ruleset whose title rule has keywords and is listed by two groups
\* and whose date rule has a range and is listed by none.
C40_Witness ==
    /\ Built
    /\ Listings(config0.groups, "title") = 2
    /\ Listings(config0.groups, "date") = 0
    /\ Len(FieldParts(RulesMap0, "title")) > 1
    /\ Len(FieldParts(RulesMap0, "date")) = 1
    /\ PositiveClauses(first, "title") = 2 * Len(FieldParts(RulesMap0, "title"))
    /\ PositiveClauses(first, "date") = 0

\* ---------------------------------------------------------------- C32
\* Every response so far is one a server keeping its own count sends: a
\* JSON document without an error field whose batch is no longer than the
\* total it reports.
ResponsesWithinTotal ==
    \A k \in 1..Len(responses) :
        /\ responses[k].ok
        /\ ~responses[k].error
        /\ responses[k].n <= responses[k].total

\* C32: once a response has reported a total-count (scrape `total`,
\* advanced-search `numFound`), the number of records the enumeration has
\* yielded never exceeds the known total-count.
C32_YieldedWithinTotal ==
    (Mode \in {"scrape", "advanced"} /\ num_found # None /\ ResponsesWithinTotal)
        => Len(yielded) <= num_found

\* ---------------------------------------------------------------- C33
\* The query the caller put into the options object.
CallerQuery == <<"q0">>

\* The query a constructed AsyncSearch sends: the q of its full-text
\* payload once that is built, the q of its request parameters otherwise.
QuerySent ==
    IF "q" \in DOMAIN data THEN data["q"].val ELSE search_options.params["q"]

\* C33: a constructed AsyncSearch sends '!L ' followed by the caller's query
\* exactly when full-text search is on and DSL mode is off; with DSL mode on
\* (which turns full-text search on) and with full-text search off it sends
\* the caller's query unchanged.
C33_LiteralMarkerIffFtsWithoutDsl ==
    s_pc # "unbuilt" =>
        /\ search_options.dsl_fts => search_options.fts
        /\ search_options.query = QuerySent
        /\ QuerySent = IF search_options.fts /\ ~search_options.dsl_fts
                       THEN <<"!L ">> \o CallerQuery ELSE CallerQuery

\* A full-text request without DSL mode has been sent with the marked query.
C33_Witness ==
    /\ search_options.fts /\ ~search_options.dsl_fts
    /\ Len(responses) >= 1
    /\ responses[1].via = "fts"
    /\ "q" \in DOMAIN data
    /\ QuerySent = <<"!L ", "q0">>

\* ---------------------------------------------------------------- C34
\* A step that is the construction of the AsyncSearch: before it the options
\* object is the caller's, after it the normalised one.
Constructing == s_pc = "unbuilt" /\ s_pc' = "ready"

HasDefaultCount(params) == "count" \in DOMAIN params /\ params["count"] = "10000"

\* C34: when the caller's parameters have no page parameter, construction
\* injects count = 10000 and the protocol is scrape unless full-text or
\* aggregate mode is selected; the offset-paged protocol is selected only
\* when the caller supplied a page parameter.
C34_DefaultCountWithoutPage ==
    [][Constructing =>
         /\ "page" \notin DOMAIN search_options.params =>
              /\ HasDefaultCount(search_options'.params)
              /\ Protocol(search_options') \in {"fts", "aggs", "scrape"}
         /\ Protocol(search_options') = "advanced" =>
              "page" \in DOMAIN search_options.params]_vars

\* C34 as amended: rows counts as a paging parameter.  Without page and
\* rows construction injects count = 10000 and the protocol is scrape
\* unless full-text or aggregate mode is selected; with rows and no page it
\* sets page = 1 and injects no count; the offset-paged protocol is
\* selected only when the caller supplied page or rows.
C34_DefaultCountWithoutPageOrRows ==
    [][Constructing =>
         LET caller == DOMAIN search_options.params IN
         /\ ("page" \notin caller /\ "rows" \notin caller) =>
              /\ HasDefaultCount(search_options'.params)
              /\ Protocol(search_options') \in {"fts", "aggs", "scrape"}
         /\ ("page" \notin caller /\ "rows" \in caller) =>
              /\ search_options'.params["page"] = "1"
              /\ "count" \notin DOMAIN search_options'.params
         /\ Protocol(search_options') = "advanced" =>
              ("page" \in caller \/ "rows" \in caller)]_vars

\* An enumeration built without page and rows has sent a scrape request
\* carrying the default count.
C34_Witness ==
    /\ Len(responses) >= 1
    /\ responses[1].via = "scrape"
    /\ HasDefaultCount(search_options.params)
    /\ "page" \notin DOMAIN search_options.params

\* ---------------------------------------------------------------- C39
\* C39: constructing a second AsyncSearch from an options object that an
\* earlier construction has normalised leaves its query, parameters and
\* flags as they were.
C39_NormalisationIdempotent ==
    [][(o_pc = "unstarted" /\ o_pc' = "constructed")
          => search_options' = search_options]_vars

\* ---------------------------------------------------------------- C35
\* C35: however the tasks interleave, the initialization body runs to
\* completion at most once, at most one task is inside it, and no operation
\* body runs (sends a request, touches the session) before it has completed.
C35_InitializedOnceBeforeUse ==
    /\ init_runs <= 1
    /\ initialized <=> init_runs = 1
    /\ Cardinality({t \in Tasks : c_pc[t] = "loading"}) <= 1
    /\ \A t \in Tasks : c_pc[t] = "loading" => init_lock = t /\ ~initialized
    /\ \A t \in Tasks : c_pc[t] \in {"run", "done"} => initialized
    /\ \A e \in touched :
          e.initialized /\ e.init_runs = 1 /\ e.session # "none"

\* One task's initialization failed while another waited for the lock; the
\* body then ran once and two tasks have sent their requests.
C35_Witness ==
    /\ init_runs = 1
    /\ \E t \in Tasks : c_pc[t] = "failed"
    /\ \E e1, e2 \in touched :
          e1.task # e2.task /\ e1.op = "get" /\ e2.op = "post"

\* ---------------------------------------------------------------- C36
\* C36: download returns None (skipped) only if the destination file
\* existed when the call started; with ignore_existing set, no file at the
\* destination and capture mode and dry-run off, the call sends a download
\* request instead of skipping.
C36_SkippedOnlyIfDestinationExisted ==
    /\ outcome = "None" => local0.exists
    /\ (/\ d_pc = "done"
        /\ opts.ignore_existing
        /\ ~local0.exists
        /\ ~opts.return_responses
        /\ ~opts.dry_run
        /\ opts.destdir = "none") => requests # <<>>

\* ---------------------------------------------------------------- C38
\* C38: when the sink is standard output or a caller's file object, every
\* request of the transfer is a full request: none carries a Range header,
\* whatever is on the local filesystem.
C38_NoRangeForStreamSinks ==
    opts.sink \in {"stdout", "fileobj"} =>
        \A i \in 1..Len(requests) : "Range" \notin DOMAIN requests[i]

\* ---------------------------------------------------------------- C37
\* The retries performed over all calls so far: what is gone from the
\* budget the options object held before the first call.
RetriesPerformed == retries0 - opts.retries

\* C37: the retry budget lives in the options object and is never
\* replenished: no step raises it, a new call starts with what the last
\* one left, over all calls sharing the object at most the initial budget
\* of retries (and of sleeps) is performed, and a call that starts with
\* budget 0 and fails, fails on its first attempt.
C37_SharedBudgetNeverReplenished ==
    /\ [](/\ 0 <= RetriesPerformed /\ RetriesPerformed <= retries0
          /\ sleeps <= RetriesPerformed
          /\ call.retries <= retries0
          /\ (call.retries = 0 /\ attempts # <<>> /\ attempts[1] # "ok") =>
                /\ d_pc = "done"
                /\ Len(attempts) = 1
                /\ Len(requests) <= 1
                /\ sleeps <= retries0
                /\ outcome \in {"False", "raised", "CancelledError"})
    /\ [][opts'.retries <= opts.retries]_vars

\* A second call made after the first used up a budget of MaxRetries: its
\* first failing request ended it.
C37_Witness ==
    /\ call.n = 2
    /\ retries0 = MaxRetries
    /\ call.retries = 0
    /\ sleeps = MaxRetries
    /\ d_pc = "done"
    /\ attempts = <<"request">>
    /\ Len(requests) = 1
    /\ outcome = "raised"

====
